---------------------------- MODULE Spec2Model ----------------------------
(***************************************************************************)
(* Optio data dashboard: src/streamlit_app.py (one Streamlit script run =  *)
(* one render cycle, reads memoised by st.cache_data) and                  *)
(* src/util/helpers.py (unit conversion and number formatting).            *)
(*                                                                         *)
(* Python values are records [k, m, e]:                                    *)
(*   k = "none"  None                                                      *)
(*   k = "int"   the integer m * 10^e, e >= 0                              *)
(*   k = "float" the number m * 10^e, m without trailing zeros             *)
(*   k = "nan"   float('nan')                                              *)
(*   k = "str"   a string that is not the text of a number                 *)
(*   k = "exc"   an exception raised by the call (m, e unused; t its type) *)
(* Floats are decimal floating point with exact arithmetic; the binary     *)
(* rounding of IEEE doubles is not modelled.                               *)
(***************************************************************************)
EXTENDS Integers, Sequences, FiniteSets, TLC

VARIABLES
    DB,         \* the connection descriptor get_db_config returned
    warehouse,  \* the gold tables: what each query would return, by key
    ttlInclusive, \* whether the installed cache still serves an entry aged exactly ttl
    pc,         \* where the script run stands
    runs,       \* script runs started so far
    now,        \* the clock the cache reads
    cache,      \* st.cache_data's entries of query_df: key -> entry
    sinceClear, \* keys read since the cache was last empty or cleared
    lastCall,   \* the last query_df call: what it found and what it did
    failedKeys, \* keys whose most recent read raised
    calls,      \* query_df calls made by this run
    dt_options, \* the dt values the selectbox offers
    dt,         \* the selected dt (0: none yet)
    supply,     \* the supply rows fetched by this run
    amounts,    \* total/staked/locked/liquid in OPT and liquid_delta
    trace,      \* the steps this run has executed, in order
    msgs,       \* st.error / st.warning calls of this run, in order
    view,       \* what this run has rendered, by component
    arg,        \* helper probe: the value handed to the helper
    fn,         \* helper probe: the helper applied last ("" before any)
    res         \* helper probe: what the helper returned or raised

probeVars == <<arg, fn, res>>
runVars == <<pc, calls, dt_options, dt, supply, amounts, trace, msgs, view>>
cacheVars == <<cache, sinceClear, lastCall, failedKeys>>
vars == <<DB, warehouse, ttlInclusive, runs, now, cacheVars, runVars, probeVars>>

---------------------------------------------------------------------------
(* Python values *)

None == [k |-> "none", m |-> 0, e |-> 0]
NaN == [k |-> "nan", m |-> 0, e |-> 0]
NonNumericStr == [k |-> "str", m |-> 0, e |-> 0]
PyInt(v) == [k |-> "int", m |-> v, e |-> 0]
TypeError == [k |-> "exc", m |-> 0, e |-> 0, t |-> "TypeError"]
ValueError == [k |-> "exc", m |-> 0, e |-> 0, t |-> "ValueError"]

IsExc(v) == v.k = "exc"
IsNum(v) == v.k \in {"int", "float"}

RECURSIVE Pow10(_)
Pow10(k) == IF k = 0 THEN 1 ELSE 10 * Pow10(k - 1)

RECURSIVE NumDigits(_)
NumDigits(n) == IF n < 10 THEN 1 ELSE 1 + NumDigits(n \div 10)

AbsInt(i) == IF i < 0 THEN -i ELSE i

RECURSIVE PyFloat(_, _)
\* the float m * 10^e in normal form (no trailing zeros in m; zero is 0 * 10^0)
PyFloat(m, e) ==
    IF m = 0 THEN [k |-> "float", m |-> 0, e |-> 0]
    ELSE IF m % 10 = 0 THEN PyFloat(m \div 10, e + 1)
    ELSE [k |-> "float", m |-> m, e |-> e]

\* float(x): None raises TypeError, a non-numeric string raises ValueError
ToFloat(x) ==
    CASE x.k = "none" -> TypeError
      [] x.k = "str" -> ValueError
      [] x.k = "nan" -> NaN
      [] OTHER -> PyFloat(x.m, x.e)

\* the number of digits of the integer part of |x| (<= 0 when |x| < 1); x # 0
Magnitude(x) == NumDigits(AbsInt(x.m)) + x.e

\* |a| >= |b| for floats in normal form
AbsGe(a, b) ==
    IF b.m = 0 THEN TRUE
    ELSE IF a.m = 0 THEN FALSE
    ELSE IF Magnitude(a) # Magnitude(b) THEN Magnitude(a) > Magnitude(b)
    ELSE LET e0 == IF a.e < b.e THEN a.e ELSE b.e
         IN  AbsInt(a.m) * Pow10(a.e - e0) >= AbsInt(b.m) * Pow10(b.e - e0)

\* |a| > |b|
AbsGt(a, b) == ~AbsGe(b, a)

\* a - b
FSub(a, b) ==
    LET e0 == IF a.e < b.e THEN a.e ELSE b.e
    IN  PyFloat(a.m * Pow10(a.e - e0) - b.m * Pow10(b.e - e0), e0)

\* a / d for a divisor d that is a power of ten (1e3, 1e6, 1e9, 1e12, 1000000.0)
FDivPow10(a, d) == PyFloat(a.m, a.e - d.e)

\* round-half-even of num / den, num >= 0, den > 0
RoundHalfEven(num, den) ==
    LET q == num \div den
        r == num % den
    IN  IF 2 * r < den THEN q
        ELSE IF 2 * r > den THEN q + 1
        ELSE q + (q % 2)

RECURSIVE Zeros(_)
Zeros(n) == IF n <= 0 THEN "" ELSE "0" \o Zeros(n - 1)

\* the decimal digits of |x| * 10^p rounded half-even to an integer
RoundedDigits(x, p) ==
    LET sh == x.e + p
    IN  IF x.m = 0 THEN "0"
        ELSE IF sh >= 0 THEN ToString(AbsInt(x.m)) \o Zeros(sh)
        ELSE IF -sh > 9 THEN "0"
        ELSE ToString(RoundHalfEven(AbsInt(x.m), Pow10(-sh)))

Sign(x) == IF x.m < 0 THEN "-" ELSE ""

RECURSIVE Grouped(_)
\* a string of digits with "," between groups of three digits
Grouped(d) ==
    IF Len(d) <= 3 THEN d
    ELSE Grouped(SubSeq(d, 1, Len(d) - 3)) \o "," \o SubSeq(d, Len(d) - 2, Len(d))

\* f"{x:,.0f}" of a float
FormatGrouped0(x) ==
    IF x.k = "nan" THEN "nan" ELSE Sign(x) \o Grouped(RoundedDigits(x, 0))

\* f"{x:.2f}" of a float
FormatFixed2(x) ==
    IF x.k = "nan" THEN "nan"
    ELSE LET h == RoundedDigits(x, 2)
             d == Zeros(3 - Len(h)) \o h
         IN  Sign(x) \o SubSeq(d, 1, Len(d) - 2) \o "." \o SubSeq(d, Len(d) - 1, Len(d))

---------------------------------------------------------------------------
(* src/util/helpers.py *)

UOPT_PER_OPT == 1000000

\* the em dash U+2014 that fmt_opt and fmt_int return on failure
Placeholder == "--"

to_opt(x) ==
    IF x.k = "none" THEN None
    ELSE LET f == ToFloat(x)
         IN  IF IsExc(f) \/ f.k = "nan" THEN f
             ELSE FDivPow10(f, PyFloat(UOPT_PER_OPT, 0))

\* pd.to_numeric(s, errors="coerce") / UOPT_PER_OPT, element by element
to_opt_series(s) ==
    [i \in 1..Len(s) |->
        IF IsNum(s[i]) THEN FDivPow10(ToFloat(s[i]), PyFloat(UOPT_PER_OPT, 0))
        ELSE NaN]

fmt_opt(x) ==
    LET f == ToFloat(x)
    IN  IF IsExc(f) THEN Placeholder ELSE FormatGrouped0(f)

\* the units tried smallest first
HumanUnits_ascending ==
    << [unit |-> "K", div |-> PyFloat(1, 3)],
       [unit |-> "M", div |-> PyFloat(1, 6)],
       [unit |-> "B", div |-> PyFloat(1, 9)],
       [unit |-> "T", div |-> PyFloat(1, 12)] >>

\* the (unit, divisor) pairs of human, in the order the loop tries them
HumanUnits ==
    << [unit |-> "T", div |-> PyFloat(1, 12)],
       [unit |-> "B", div |-> PyFloat(1, 9)],
       [unit |-> "M", div |-> PyFloat(1, 6)],
       [unit |-> "K", div |-> PyFloat(1, 3)] >>

RECURSIVE HumanLoop(_, _, _)
\* the for loop of human from position i on: the first unit with abs(n) >= div
HumanLoop(n, units, i) ==
    IF i > Len(units) THEN [raised |-> FALSE, num |-> FormatGrouped0(n), unit |-> ""]
    ELSE IF n.k # "nan" /\ AbsGe(n, units[i].div)
         THEN [raised |-> FALSE, num |-> FormatFixed2(FDivPow10(n, units[i].div)),
               unit |-> units[i].unit]
         ELSE HumanLoop(n, units, i + 1)

\* human(n) as (number text, unit suffix), or raised when float(n) raises
human_parts(n) ==
    LET f == ToFloat(n)
    IN  IF IsExc(f) THEN [raised |-> TRUE, num |-> f.t, unit |-> ""]
        ELSE HumanLoop(f, HumanUnits, 1)

human(n) ==
    LET p == human_parts(n)
    IN  [raised |-> p.raised, out |-> p.num \o p.unit]

\* int(n): truncation toward zero for a float
ToInt(n) ==
    CASE n.k = "none" -> TypeError
      [] n.k = "str" -> ValueError
      [] n.k = "nan" -> ValueError
      [] n.k = "int" -> n
      [] OTHER -> IF n.e >= 0 THEN [k |-> "int", m |-> n.m, e |-> n.e]
                  ELSE IF -n.e > 9 THEN PyInt(0)
                  ELSE LET q == AbsInt(n.m) \div Pow10(-n.e)
                       IN  PyInt(IF n.m < 0 THEN -q ELSE q)

\* f"{int(n):,}", the placeholder when int(n) raises
fmt_int(n) ==
    LET i == ToInt(n)
    IN  IF IsExc(i) THEN Placeholder
        ELSE (IF i.m < 0 THEN "-" ELSE "") \o Grouped(ToString(AbsInt(i.m)) \o Zeros(i.e))


---------------------------------------------------------------------------
(* src/streamlit_app.py: the connection descriptor *)

StartsWith(s, p) == Len(s) >= Len(p) /\ SubSeq(s, 1, Len(p)) = p

MissingMsg == "Missing one or more of server_hostname/http_path/access_token."
SchemeMsg == "server_hostname must NOT include http(s):// (use only the hostname)."
PathMsg == "http_path must start with /sql/..."

\* validate_db_config without the test for a URL scheme in the host
validate_db_config_no_scheme_test(db) ==
    IF db.server_hostname = "" \/ db.http_path = "" \/ db.access_token = ""
    THEN [ok |-> FALSE, msg |-> MissingMsg]
    ELSE IF ~StartsWith(db.http_path, "/sql/")
    THEN [ok |-> FALSE, msg |-> PathMsg]
    ELSE [ok |-> TRUE, msg |-> ""]

validate_db_config(db) ==
    IF db.server_hostname = "" \/ db.http_path = "" \/ db.access_token = ""
    THEN [ok |-> FALSE, msg |-> MissingMsg]
    ELSE IF StartsWith(db.server_hostname, "http://")
            \/ StartsWith(db.server_hostname, "https://")
    THEN [ok |-> FALSE, msg |-> SchemeMsg]
    ELSE IF ~StartsWith(db.http_path, "/sql/")
    THEN [ok |-> FALSE, msg |-> PathMsg]
    ELSE [ok |-> TRUE, msg |-> ""]

\* the descriptors get_db_config may return (a missing field reads as "")
Configs ==
    [server_hostname : {"", "dbc.cloud", "http://dbc.cloud", "https://dbc.cloud"},
     http_path : {"", "/sql/1.0/w", "sql/1.0/w"},
     access_token : {"", "dapi1"}]

---------------------------------------------------------------------------
(* src/streamlit_app.py: query_df under @st.cache_data(ttl=300) *)

TTL == 300

\* the clock advances in steps of half a TTL or a whole TTL, MaxTicks TTLs at most
MaxTicks == 2
MaxRuns == 2

Dates == {1, 2}

Key(q, d) == [q |-> q, dt |-> d]
Keys == {Key("dates", 0)}
        \cup {Key(q, d) : q \in {"supply", "buckets", "calendar", "distribution"},
                          d \in Dates}

NoEntry == [present |-> FALSE, ts |-> 0, rows |-> <<>>]

\* an entry served whatever its age
Fresh_without_expiry(entry, t) == entry.present

\* st.cache_data(ttl=300) serves an entry younger than ttl seconds and no
\* entry older than that; which of the two an entry aged exactly ttl gets is
\* the installed cache library's choice, fixed for the process
Fresh(entry, t) ==
    /\ entry.present
    /\ \/ t - entry.ts < TTL
       \/ (ttlInclusive /\ t - entry.ts = TTL)

\* query_df memoising a failed read as an empty result
query_df_caching_failure(k, src) ==
    IF Fresh(cache[k], now)
    THEN [rows |-> cache[k].rows, failed |-> FALSE, fromCache |-> TRUE,
          invoked |-> FALSE, cache |-> cache]
    ELSE [rows |-> IF src.failed THEN <<>> ELSE src.rows, failed |-> src.failed,
          fromCache |-> FALSE, invoked |-> TRUE,
          cache |-> [cache EXCEPT ![k] = [present |-> TRUE, ts |-> now,
                        rows |-> IF src.failed THEN <<>> ELSE src.rows]]]

\* query_df(q, params) at key k, src what sql.connect/execute/fetchall would
\* give now: the memoised rows, or the read's rows (stored), or RuntimeError
query_df(k, src) ==
    IF Fresh(cache[k], now)
    THEN [rows |-> cache[k].rows, failed |-> FALSE, fromCache |-> TRUE,
          invoked |-> FALSE, cache |-> cache]
    ELSE IF src.failed
    THEN [rows |-> <<>>, failed |-> TRUE, fromCache |-> FALSE,
          invoked |-> TRUE, cache |-> cache]
    ELSE [rows |-> src.rows, failed |-> FALSE, fromCache |-> FALSE,
          invoked |-> TRUE,
          cache |-> [cache EXCEPT ![k] = [present |-> TRUE, ts |-> now,
                                          rows |-> src.rows]]]

QueryFailedMsg == "Databricks query failed (possible local DNS/network). Details: ..."

NoCall == [key |-> Key("none", 0), at |-> 0, prev |-> NoEntry, stored |-> NoEntry,
           first |-> FALSE, retry |-> FALSE, fromCache |-> FALSE,
           invoked |-> FALSE, failed |-> FALSE, rows |-> <<>>]

\* the bookkeeping of one query_df call with result r
Called(k, r) ==
    /\ cache' = r.cache
    /\ sinceClear' = sinceClear \cup {k}
    /\ lastCall' = [key |-> k, at |-> now, prev |-> cache[k], stored |-> r.cache[k],
                    first |-> k \notin sinceClear, retry |-> k \in failedKeys,
                    fromCache |-> r.fromCache, invoked |-> r.invoked,
                    failed |-> r.failed, rows |-> r.rows]
    /\ failedKeys' = IF r.failed THEN failedKeys \cup {k} ELSE failedKeys \ {k}
    /\ calls' = calls + 1

---------------------------------------------------------------------------
(* What the warehouse may answer *)

U(n) == PyInt(n)
\* the integer m * 10^e, for amounts beyond 2^31
UE(m, e) == [k |-> "int", m |-> m, e |-> e]

SupplyRow(t, s, l, q) ==
    [total_supply_uopt |-> t, staked_uopt |-> s, locked_uopt |-> l,
     liquid_est_uopt |-> q]

SupplyRows ==
    {SupplyRow(U(10000000), U(4000000), U(3000000), U(q)) :
        q \in {3000000, 3500000, 3500001, 2400000}}
    \cup {SupplyRow(U(0), U(0), U(0), U(0)),
          SupplyRow(None, U(4000000), U(3000000), U(3000000))}

BucketRow(b, a, w, c) ==
    [unlock_bucket |-> b, locked_uopt |-> a, wallet_count |-> w, lock_count |-> c]

CalendarRow(d, n, a, w, c) ==
    [unlock_date |-> d, days_to_unlock |-> n, unlocking_uopt |-> a,
     wallet_count |-> w, lock_count |-> c]

HolderRow(b, w, a) ==
    [holding_bucket |-> b, wallet_count |-> w, total_locked_uopt |-> a]

BaseSupply == SupplyRow(U(10000000), U(4000000), U(3000000), U(3000000))

BucketRows == <<BucketRow("1M", UE(25, 8), U(1200), U(1500)),
                BucketRow("1W", None, None, U(3))>>

CalendarRows == <<CalendarRow(10, 9, U(1500000), U(2), U(2)),
                  CalendarRow(20, 19, U(1234567000), U(7), U(9))>>

HolderRows == <<HolderRow("10k-100k", U(1234567), U(2000000000)),
                HolderRow("<10k", U(12), U(999500000))>>

\* the tables' answers by key: dt 1 answers as given, any other dt in full
Tables(dates, sup, buckets, calendar, holders) ==
    [k \in Keys |->
        CASE k.q = "dates" -> dates
          [] k.q = "supply" -> IF k.dt = 1 THEN sup ELSE <<BaseSupply>>
          [] k.q = "buckets" -> IF k.dt = 1 THEN buckets ELSE BucketRows
          [] k.q = "calendar" -> IF k.dt = 1 THEN calendar ELSE CalendarRows
          [] k.q = "distribution" -> IF k.dt = 1 THEN holders ELSE HolderRows]

Warehouses ==
    {Tables(d, <<BaseSupply>>, BucketRows, CalendarRows, HolderRows) :
        d \in {<<>>, <<1>>, <<2, 1>>}}
    \cup {Tables(<<1>>, s, BucketRows, CalendarRows, HolderRows) :
        s \in {<<>>} \cup {<<r>> : r \in SupplyRows}}
    \cup {Tables(<<1>>, <<BaseSupply>>, b, c, h) :
        b \in {<<>>, BucketRows}, c \in {<<>>, CalendarRows}, h \in {<<>>, HolderRows}}

\* what sql.connect / execute / fetchall may give for key k now
SourceOutcomes(k) ==
    {[failed |-> TRUE, rows |-> <<>>], [failed |-> FALSE, rows |-> warehouse[k]]}

---------------------------------------------------------------------------
(* src/streamlit_app.py: the script, one action per step *)

Msg(kind, step, text) == [kind |-> kind, step |-> step, text |-> text, delta |-> None]

NoAmounts == [total |-> None, staked |-> None, locked |-> None, liquid |-> None,
              delta |-> None, done |-> FALSE]

NoView == [kpis |-> <<>>, breakdown |-> <<>>, buckets |-> <<>>,
           calendar |-> <<>>, top |-> <<>>, distribution |-> <<>>]

Terminal == {"Done", "Stopped", "Raised"}

\* a script run starts from the top with nothing rendered
FreshRun ==
    /\ pc' = "Validate"
    /\ calls' = 0
    /\ dt_options' = <<>>
    /\ dt' = 0
    /\ supply' = <<>>
    /\ amounts' = NoAmounts
    /\ trace' = <<>>
    /\ msgs' = <<>>
    /\ view' = NoView

\* st.error(text); st.stop()
ErrorStop(step, text) ==
    /\ msgs' = Append(msgs, Msg("error", step, text))
    /\ pc' = "Stopped"

NoResult == [raised |-> FALSE, num |-> "", unit |-> ""]

\* the process after start-up with descriptor db over tables w: nothing cached
Started(db, w) ==
    /\ DB = db
    /\ warehouse = w
    /\ ttlInclusive \in BOOLEAN
    /\ pc = "Validate"
    /\ runs = 1
    /\ now = 0
    /\ cache = [k \in Keys |-> NoEntry]
    /\ sinceClear = {}
    /\ lastCall = NoCall
    /\ failedKeys = {}
    /\ calls = 0
    /\ dt_options = <<>>
    /\ dt = 0
    /\ supply = <<>>
    /\ amounts = NoAmounts
    /\ trace = <<>>
    /\ msgs = <<>>
    /\ view = NoView

Init ==
    /\ \E db \in Configs, w \in Warehouses : Started(db, w)
    /\ arg = None
    /\ fn = ""
    /\ res = NoResult

\* lines 43-47
Validate ==
    /\ pc = "Validate"
    /\ trace' = Append(trace, "Validate")
    /\ LET v == validate_db_config(DB)
       IN  IF v.ok
           THEN pc' = "Header" /\ msgs' = msgs
           ELSE ErrorStop("Validate", "Databricks config invalid: " \o v.msg)
    /\ UNCHANGED <<DB, warehouse, ttlInclusive, runs, now, cacheVars, calls, dt_options, dt, supply,
                   amounts, view, probeVars>>

\* lines 70-76: the title and the "Refresh data" button; a click clears the
\* whole cache and st.rerun() restarts the script at once
Header ==
    /\ pc = "Header"
    /\ \E clicked \in BOOLEAN :
          IF clicked
          THEN /\ cache' = [k \in Keys |-> NoEntry]
               /\ sinceClear' = {}
               /\ FreshRun
               /\ UNCHANGED <<runs, lastCall, failedKeys>>
          ELSE /\ pc' = "FetchDates"
               /\ trace' = Append(trace, "Header")
               /\ UNCHANGED <<runs, cacheVars, calls, dt_options, dt, supply,
                              amounts, msgs, view>>
    /\ UNCHANGED <<DB, warehouse, ttlInclusive, now, probeVars>>

\* lines 78-93
FetchDates ==
    /\ pc = "FetchDates"
    /\ trace' = Append(trace, "FetchDates")
    /\ \E src \in SourceOutcomes(Key("dates", 0)) :
          LET k == Key("dates", 0)
              r == query_df(k, src)
          IN  /\ Called(k, r)
              /\ IF r.failed
                 THEN ErrorStop("FetchDates", QueryFailedMsg) /\ dt_options' = <<>>
                 ELSE IF r.rows = <<>>
                 THEN /\ ErrorStop("FetchDates",
                            "No dt values found in gold_supply_stake_lock_daily.")
                      /\ dt_options' = <<>>
                 ELSE /\ dt_options' = r.rows
                      /\ pc' = "SelectDate"
                      /\ msgs' = msgs
    /\ UNCHANGED <<DB, warehouse, ttlInclusive, runs, now, dt, supply, amounts, view, probeVars>>

\* lines 95-96
SelectDate ==
    /\ pc = "SelectDate"
    /\ trace' = Append(trace, "SelectDate")
    /\ \E i \in 1..Len(dt_options) : dt' = dt_options[i]
    /\ pc' = "FetchSupply"
    /\ UNCHANGED <<DB, warehouse, ttlInclusive, runs, now, cacheVars, calls, dt_options, supply, amounts,
                   msgs, view, probeVars>>

\* lines 100-116
FetchSupply ==
    /\ pc = "FetchSupply"
    /\ trace' = Append(trace, "FetchSupply")
    /\ \E src \in SourceOutcomes(Key("supply", dt)) :
          LET k == Key("supply", dt)
              r == query_df(k, src)
          IN  /\ Called(k, r)
              /\ IF r.failed
                 THEN ErrorStop("FetchSupply", QueryFailedMsg) /\ supply' = <<>>
                 ELSE IF r.rows = <<>>
                 THEN /\ ErrorStop("FetchSupply", "No supply row found for dt=" \o ToString(dt))
                      /\ supply' = <<>>
                 ELSE /\ supply' = r.rows
                      /\ pc' = "Reconcile"
                      /\ msgs' = msgs
    /\ UNCHANGED <<DB, warehouse, ttlInclusive, runs, now, dt_options, dt, amounts, view, probeVars>>

\* a - b in Python: None on either side raises TypeError
PySub(a, b) ==
    IF IsExc(a) THEN a
    ELSE IF IsExc(b) THEN b
    ELSE IF a.k = "none" \/ b.k = "none" THEN TypeError
    ELSE IF a.k = "nan" \/ b.k = "nan" THEN NaN
    ELSE FSub(a, b)

\* the sanity check with >= in place of >
NeedsWarning_at_half(delta) == delta.k # "nan" /\ AbsGe(delta, PyFloat(5, -1))

\* line 142: abs(liquid_delta) > 0.5
NeedsWarning(delta) == delta.k # "nan" /\ AbsGt(delta, PyFloat(5, -1))

Kpi(label, x) == [label |-> label, value |-> human(x).out, caption |-> FormatGrouped0(x)]

\* lines 118-145: the four amounts, the liquid sanity check, the KPI row
Reconcile ==
    /\ pc = "Reconcile"
    /\ trace' = Append(trace, "Reconcile")
    /\ LET r == supply[1]
           total_opt == to_opt(r.total_supply_uopt)
           staked_opt == to_opt(r.staked_uopt)
           locked_opt == to_opt(r.locked_uopt)
           liquid_opt == to_opt(r.liquid_est_uopt)
           recomputed_liquid == PySub(PySub(total_opt, staked_opt), locked_opt)
           liquid_delta == PySub(liquid_opt, recomputed_liquid)
           got == [total |-> total_opt, staked |-> staked_opt, locked |-> locked_opt,
                   liquid |-> liquid_opt, delta |-> liquid_delta, done |-> TRUE]
       IN  IF IsExc(liquid_delta)
           THEN /\ pc' = "Raised"
                /\ amounts' = got
                /\ UNCHANGED <<msgs, view>>
           ELSE /\ amounts' = got
                /\ view' = [view EXCEPT !.kpis =
                              << Kpi("Total Supply (OPT)", total_opt),
                                 Kpi("Staked (OPT)", staked_opt),
                                 Kpi("Locked (OPT)", locked_opt),
                                 Kpi("Liquid est. (OPT)", liquid_opt) >>]
                /\ msgs' = IF NeedsWarning(liquid_delta)
                           THEN Append(msgs, [kind |-> "warning", step |-> "Reconcile",
                                   text |-> "Sanity check: liquid_est differs from (total - staked - locked)",
                                   delta |-> liquid_delta])
                           ELSE msgs
                /\ pc' = "Breakdown"
    /\ UNCHANGED <<DB, warehouse, ttlInclusive, runs, now, cacheVars, calls, dt_options, dt, supply, probeVars>>

\* Python truth of a conversion result: None and 0.0 are false
Truthy(x) == x.k # "none" /\ ~(IsNum(x) /\ x.m = 0)

RECURSIVE Frac(_, _, _)
\* the fraction n * 10^k / d, tens cancelled against d where d has them
Frac(n, d, k) ==
    IF k = 0 THEN [num |-> n, den |-> d]
    ELSE IF d % 10 = 0 THEN Frac(n, d \div 10, k - 1)
    ELSE Frac(n * 10, d, k - 1)

\* (c / total * 100) if total else 0.0, as the exact fraction num / den
Percent(c, total) ==
    IF Truthy(total)
    THEN LET e0 == IF c.e < total.e THEN c.e ELSE total.e
         IN  Frac(c.m * Pow10(c.e - e0), total.m * Pow10(total.e - e0), 2)
    ELSE [num |-> 0, den |-> 1]

\* f"{x:.2f}%" of a non-negative fraction
PercentLabel(p) ==
    LET f == Frac(p.num, p.den, 2)
        h == ToString(RoundHalfEven(f.num, f.den))
        d == Zeros(3 - Len(h)) \o h
    IN  SubSeq(d, 1, Len(d) - 2) \o "." \o SubSeq(d, Len(d) - 1, Len(d)) \o "%"

PctRow(name, c, total) ==
    [Component |-> name, Percent |-> Percent(c, total),
     Percent_label |-> PercentLabel(Percent(c, total)), OPT_label |-> human(c).out]

\* the breakdown handing over to the calendar section, past the buckets
Breakdown_skipping_buckets ==
    /\ pc = "Breakdown"
    /\ trace' = Append(trace, "Breakdown")
    /\ view' = [view EXCEPT !.breakdown =
                  << PctRow("Staked", amounts.staked, amounts.total),
                     PctRow("Locked", amounts.locked, amounts.total),
                     PctRow("Liquid est.", amounts.liquid, amounts.total) >>]
    /\ pc' = "FetchCalendar"
    /\ UNCHANGED <<DB, warehouse, ttlInclusive, runs, now, cacheVars, calls, dt_options, dt, supply,
                   amounts, msgs, probeVars>>

\* lines 147-172
Breakdown ==
    /\ pc = "Breakdown"
    /\ trace' = Append(trace, "Breakdown")
    /\ view' = [view EXCEPT !.breakdown =
                  << PctRow("Staked", amounts.staked, amounts.total),
                     PctRow("Locked", amounts.locked, amounts.total),
                     PctRow("Liquid est.", amounts.liquid, amounts.total) >>]
    /\ pc' = "FetchBuckets"
    /\ UNCHANGED <<DB, warehouse, ttlInclusive, runs, now, cacheVars, calls, dt_options, dt, supply, amounts,
                   msgs, probeVars>>

BUCKET_ORDER == <<"1W", "1M", "6M", "12M", "18M", "24M", "24M+">>
HOLDER_ORDER == <<"<10k", "10k-100k", "100k-1M", "1M-10M", "10M-50M", "50M-100M", "100M+">>

\* the position of a label in its ordered categories
Rank(order, b) == CHOOSE i \in 1..Len(order) : order[i] = b

\* column c of the rows, as a sequence
Column(rows, c) == [i \in 1..Len(rows) |-> rows[i][c]]

\* lines 191-211: the bucket chart series and the detail table
BucketsView(rows) ==
    LET opt == to_opt_series(Column(rows, "locked_uopt"))
        with == [i \in 1..Len(rows) |->
                    [bucket |-> rows[i].unlock_bucket,
                     locked_OPT |-> human(opt[i]).out,
                     wallet_count |-> fmt_int(rows[i].wallet_count),
                     lock_count |-> fmt_int(rows[i].lock_count)]]
    IN  SortSeq(with, LAMBDA a, b : Rank(BUCKET_ORDER, a.bucket) < Rank(BUCKET_ORDER, b.bucket))

\* lines 234-239: unlocking OPT by unlock date
CalendarChart(rows) ==
    LET opt == to_opt_series(Column(rows, "unlocking_uopt"))
        with == [i \in 1..Len(rows) |->
                    [unlock_date |-> rows[i].unlock_date, unlocking_opt |-> opt[i]]]
    IN  SortSeq(with, LAMBDA a, b : a.unlock_date < b.unlock_date)

TopN == 30

\* lines 241-247: the largest unlock dates first, at most TopN of them
CalendarTop(rows) ==
    LET opt == to_opt_series(Column(rows, "unlocking_uopt"))
        with == [i \in 1..Len(rows) |->
                    [unlock_date |-> rows[i].unlock_date,
                     days_to_unlock |-> rows[i].days_to_unlock,
                     amount |-> opt[i],
                     unlocking_OPT |-> human(opt[i]).out,
                     wallet_count |-> fmt_int(rows[i].wallet_count),
                     lock_count |-> fmt_int(rows[i].lock_count)]]
        sorted == SortSeq(with, LAMBDA a, b :
                     b.amount.k = "nan" \/ (a.amount.k # "nan" /\ ~AbsGe(b.amount, a.amount)))
    IN  SubSeq(sorted, 1, IF Len(sorted) < TopN THEN Len(sorted) ELSE TopN)

\* lines 268-290: the holder charts and the detail table
DistributionView(rows) ==
    LET opt == to_opt_series(Column(rows, "total_locked_uopt"))
        with == [i \in 1..Len(rows) |->
                    [bucket |-> rows[i].holding_bucket,
                     wallet_count |-> fmt_int(rows[i].wallet_count),
                     total_locked_OPT |-> human(opt[i]).out]]
    IN  SortSeq(with, LAMBDA a, b : Rank(HOLDER_ORDER, a.bucket) < Rank(HOLDER_ORDER, b.bucket))

\* an empty section treated like an empty supply row: error and stop
OnEmpty_stopping(step, text, next) ==
    /\ msgs' = Append(msgs, Msg("error", step, text))
    /\ view' = view
    /\ pc' = "Stopped"

\* lines 188-189, 231-232, 265-266: an empty section warns and the script goes on
OnEmpty(step, text, next) ==
    /\ msgs' = Append(msgs, Msg("warning", step, text))
    /\ view' = view
    /\ pc' = next

\* lines 176-213
FetchBuckets ==
    /\ pc = "FetchBuckets"
    /\ trace' = Append(trace, "FetchBuckets")
    /\ \E src \in SourceOutcomes(Key("buckets", dt)) :
          LET k == Key("buckets", dt)
              r == query_df(k, src)
          IN  /\ Called(k, r)
              /\ IF r.failed
                 THEN ErrorStop("FetchBuckets", QueryFailedMsg) /\ view' = view
                 ELSE IF r.rows = <<>>
                 THEN OnEmpty("FetchBuckets", "No unlock bucket data for this dt.", "FetchCalendar")
                 ELSE /\ view' = [view EXCEPT !.buckets = BucketsView(r.rows)]
                      /\ msgs' = msgs
                      /\ pc' = "FetchCalendar"
    /\ UNCHANGED <<DB, warehouse, ttlInclusive, runs, now, dt_options, dt, supply, amounts, probeVars>>

\* lines 217-249
FetchCalendar ==
    /\ pc = "FetchCalendar"
    /\ trace' = Append(trace, "FetchCalendar")
    /\ \E src \in SourceOutcomes(Key("calendar", dt)) :
          LET k == Key("calendar", dt)
              r == query_df(k, src)
          IN  /\ Called(k, r)
              /\ IF r.failed
                 THEN ErrorStop("FetchCalendar", QueryFailedMsg) /\ view' = view
                 ELSE IF r.rows = <<>>
                 THEN OnEmpty("FetchCalendar", "No unlock calendar data for this dt.", "FetchDistribution")
                 ELSE /\ view' = [view EXCEPT !.calendar = CalendarChart(r.rows),
                                              !.top = CalendarTop(r.rows)]
                      /\ msgs' = msgs
                      /\ pc' = "FetchDistribution"
    /\ UNCHANGED <<DB, warehouse, ttlInclusive, runs, now, dt_options, dt, supply, amounts, probeVars>>

\* lines 253-290
FetchDistribution ==
    /\ pc = "FetchDistribution"
    /\ trace' = Append(trace, "FetchDistribution")
    /\ \E src \in SourceOutcomes(Key("distribution", dt)) :
          LET k == Key("distribution", dt)
              r == query_df(k, src)
          IN  /\ Called(k, r)
              /\ IF r.failed
                 THEN ErrorStop("FetchDistribution", QueryFailedMsg) /\ view' = view
                 ELSE IF r.rows = <<>>
                 THEN OnEmpty("FetchDistribution", "No holder distribution data for this dt.", "Done")
                 ELSE /\ view' = [view EXCEPT !.distribution = DistributionView(r.rows)]
                      /\ msgs' = msgs
                      /\ pc' = "Done"
    /\ UNCHANGED <<DB, warehouse, ttlInclusive, runs, now, dt_options, dt, supply, amounts, probeVars>>

\* a widget interaction or a page load runs the script again from the top
Rerun ==
    /\ pc \in Terminal
    /\ runs < MaxRuns
    /\ runs' = runs + 1
    /\ FreshRun
    /\ UNCHANGED <<DB, warehouse, ttlInclusive, now, cacheVars, probeVars>>

\* where the model lets time pass: between script runs (a run itself takes
\* far less than a TTL)
TickPoints == Terminal

\* time passes
Tick ==
    /\ pc \in TickPoints
    /\ \E d \in {TTL \div 2, TTL} :
          /\ now + d <= MaxTicks * TTL
          /\ now' = now + d
    /\ UNCHANGED <<DB, warehouse, ttlInclusive, runs, cacheVars, runVars, probeVars>>

Next ==
    \/ Validate
    \/ Header
    \/ FetchDates
    \/ SelectDate
    \/ FetchSupply
    \/ Reconcile
    \/ Breakdown
    \/ FetchBuckets
    \/ FetchCalendar
    \/ FetchDistribution
    \/ Rerun
    \/ Tick

Spec == Init /\ [][Next]_vars

---------------------------------------------------------------------------
(* The helpers of src/util/helpers.py, each applied to one value *)

MaxExp == 12

\* third-decimal ties that the nearest double does not hit exactly (9.995)
\* are left out: their rounding is decided by the binary representation
ProbeMantissas == {0, 1, 5, 15, 25, 95, 999, 1234567, 99995, 999995}

ProbeInputs ==
    {None, NaN, NonNumericStr}
    \cup {PyInt(v) : v \in {0, 1, 999, 1000, 1234567, 1500000, -2500}}
    \cup {PyFloat(s * m, e) : s \in {1, -1}, m \in ProbeMantissas, e \in -2..MaxExp}

dashVars == <<DB, warehouse, ttlInclusive, runs, now, cacheVars, runVars>>

InitFn ==
    /\ Started([server_hostname |-> "dbc.cloud", http_path |-> "/sql/1.0/w",
                access_token |-> "dapi1"],
               Tables(<<1>>, <<BaseSupply>>, BucketRows, CalendarRows, HolderRows))
    /\ arg \in ProbeInputs
    /\ fn = ""
    /\ res = NoResult

Apply_to_opt ==
    /\ fn = ""
    /\ fn' = "to_opt"
    /\ res' = to_opt(arg)
    /\ UNCHANGED <<arg, dashVars>>

Apply_to_opt_series ==
    /\ fn = ""
    /\ fn' = "to_opt_series"
    /\ res' = to_opt_series(<<arg, PyInt(1500000)>>)
    /\ UNCHANGED <<arg, dashVars>>

Apply_fmt_opt ==
    /\ fn = ""
    /\ fn' = "fmt_opt"
    /\ res' = [raised |-> FALSE, out |-> fmt_opt(arg)]
    /\ UNCHANGED <<arg, dashVars>>

Apply_fmt_int ==
    /\ fn = ""
    /\ fn' = "fmt_int"
    /\ res' = [raised |-> FALSE, out |-> fmt_int(arg)]
    /\ UNCHANGED <<arg, dashVars>>

Apply_human ==
    /\ fn = ""
    /\ fn' = "human"
    /\ res' = human_parts(arg)
    /\ UNCHANGED <<arg, dashVars>>

NextFn ==
    \/ Apply_to_opt
    \/ Apply_to_opt_series
    \/ Apply_fmt_opt
    \/ Apply_fmt_int
    \/ Apply_human

SpecFn == InitFn /\ [][NextFn]_vars

---------------------------------------------------------------------------
(* Properties *)

InTrace(step) == \E i \in 1..Len(trace) : trace[i] = step
Pos(step) == CHOOSE i \in 1..Len(trace) : trace[i] = step
Follows(step, next) == pc = next \/ InTrace(next)
FailedAt(step) == \E i \in 1..Len(msgs) : msgs[i] = Msg("error", step, QueryFailedMsg)
Warned(step) == \E i \in 1..Len(msgs) : msgs[i].kind = "warning" /\ msgs[i].step = step
Errored(step) == \E i \in 1..Len(msgs) : msgs[i].kind = "error" /\ msgs[i].step = step

CallMade == lastCall.key.q # "none"
Age == lastCall.at - lastCall.prev.ts

\* the last call answered from the stored entry, the source not read
ServedFromCache ==
    /\ lastCall.fromCache
    /\ ~lastCall.invoked
    /\ ~lastCall.failed
    /\ lastCall.rows = lastCall.prev.rows
    /\ lastCall.stored = lastCall.prev

\* the last call read the source and, having rows, stored them with the time
ReadThrough ==
    /\ ~lastCall.fromCache
    /\ lastCall.invoked
    /\ ~lastCall.failed =>
          lastCall.stored = [present |-> TRUE, ts |-> lastCall.at, rows |-> lastCall.rows]

C2_FailedReadNotCached ==
    /\ lastCall.failed =>
          /\ lastCall.invoked
          /\ ~lastCall.fromCache
          /\ lastCall.stored = lastCall.prev
          /\ calls > 0 =>
                /\ pc = "Stopped"
                /\ msgs[Len(msgs)] = Msg("error", trace[Len(trace)], QueryFailedMsg)
    /\ lastCall.retry => lastCall.invoked
    /\ \A k \in failedKeys :
          /\ ~Fresh(cache[k], now)
          /\ cache[k].present => cache[k].rows = warehouse[k]

\* a key read again after its read failed, the source read again
C2_Witness ==
    /\ lastCall.retry
    /\ lastCall.invoked
    /\ ~lastCall.failed
    /\ lastCall.stored.present

\* C3 as stated: when the bucket read fails the calendar and holder sections
\* are still fetched, and when the calendar read fails the holder section is
\* still fetched; the failed section itself is reported and not rendered.
C3_SiblingsSurviveFailure ==
    pc \in Terminal =>
        /\ FailedAt("FetchBuckets") =>
              /\ view.buckets = <<>>
              /\ InTrace("FetchCalendar")
              /\ InTrace("FetchDistribution")
        /\ FailedAt("FetchCalendar") =>
              /\ view.calendar = <<>>
              /\ InTrace("FetchDistribution")

\* the read at this step returned zero rows
ReturnedEmpty(step, q) ==
    /\ InTrace(step)
    /\ ~FailedAt(step)
    /\ warehouse[Key(q, dt)] = <<>>

\* C4: zero supply rows stop the run with an error before any KPI,
\* reconciliation or later read; zero rows in a section give a warning for
\* that section only and the run goes on to the following sections, which are
\* rendered when they have rows.
C4_EmptyResults ==
    /\ ReturnedEmpty("FetchSupply", "supply") =>
          /\ pc = "Stopped"
          /\ trace[Len(trace)] = "FetchSupply"
          /\ msgs[Len(msgs)].kind = "error"
          /\ msgs[Len(msgs)].step = "FetchSupply"
          /\ view = NoView
          /\ ~amounts.done
          /\ lastCall.key = Key("supply", dt)
    /\ ReturnedEmpty("FetchBuckets", "buckets") =>
          /\ Warned("FetchBuckets")
          /\ ~Errored("FetchBuckets")
          /\ view.buckets = <<>>
          /\ Follows("FetchBuckets", "FetchCalendar")
    /\ ReturnedEmpty("FetchCalendar", "calendar") =>
          /\ Warned("FetchCalendar")
          /\ ~Errored("FetchCalendar")
          /\ view.calendar = <<>>
          /\ Follows("FetchCalendar", "FetchDistribution")
    /\ ReturnedEmpty("FetchDistribution", "distribution") =>
          /\ Warned("FetchDistribution")
          /\ ~Errored("FetchDistribution")
          /\ view.distribution = <<>>
          /\ pc = "Done"
    /\ pc = "Done" =>
          /\ (warehouse[Key("buckets", dt)] # <<>>) => view.buckets # <<>>
          /\ (warehouse[Key("calendar", dt)] # <<>>) => view.calendar # <<>>
          /\ (warehouse[Key("distribution", dt)] # <<>>) => view.distribution # <<>>

\* a run with no bucket rows that rendered the calendar and the holders
C4_Witness ==
    /\ ReturnedEmpty("FetchBuckets", "buckets")
    /\ Warned("FetchBuckets")
    /\ pc = "Done"
    /\ view.calendar # <<>>
    /\ view.distribution # <<>>

\* the rules of the connection descriptor that db breaks, by their message
ViolatedRules(db) ==
    (IF db.server_hostname = "" \/ db.http_path = "" \/ db.access_token = ""
     THEN {MissingMsg} ELSE {})
    \cup (IF StartsWith(db.server_hostname, "http://")
             \/ StartsWith(db.server_hostname, "https://")
          THEN {SchemeMsg} ELSE {})
    \cup (IF ~StartsWith(db.http_path, "/sql/") THEN {PathMsg} ELSE {})

\* C5: with a descriptor that breaks a rule the run reports a broken rule and
\* stops at validation, and query_df is never called; any query_df call is
\* made under a descriptor that breaks no rule, after validation.
C5_NoReadBeforeValidConfig ==
    /\ ViolatedRules(DB) # {} =>
          /\ calls = 0
          /\ ~CallMade
          /\ \A k \in Keys : cache[k] = NoEntry
          /\ pc \in {"Validate", "Stopped"}
          /\ pc = "Stopped" =>
                /\ Len(msgs) = 1
                /\ msgs[1].kind = "error"
                /\ \E rule \in ViolatedRules(DB) :
                      msgs[1].text = "Databricks config invalid: " \o rule
    /\ calls > 0 => (ViolatedRules(DB) = {} /\ InTrace("Validate"))

\* a host with a URL scheme, the other fields well-formed: stopped, rule named
C5_Witness ==
    /\ DB = [server_hostname |-> "https://dbc.cloud", http_path |-> "/sql/1.0/w",
             access_token |-> "dapi1"]
    /\ pc = "Stopped"
    /\ msgs[1].text = "Databricks config invalid: " \o SchemeMsg
    /\ calls = 0

\* the integer a warehouse value holds
RawInt(v) == v.m * Pow10(v.e)

AllAmountsPresent ==
    /\ supply # <<>>
    /\ supply[1].total_supply_uopt.k = "int"
    /\ supply[1].staked_uopt.k = "int"
    /\ supply[1].locked_uopt.k = "int"
    /\ supply[1].liquid_est_uopt.k = "int"

\* liquid - (total - staked - locked) in micro-units, from the fetched row
DeltaUopt ==
    RawInt(supply[1].liquid_est_uopt)
    - (RawInt(supply[1].total_supply_uopt) - RawInt(supply[1].staked_uopt)
       - RawInt(supply[1].locked_uopt))

\* C6: for a supply row with its four amounts present, the reconciliation
\* warning is shown iff abs(delta) > 0.5 OPT and carries delta; shown or not,
\* the run goes on to the percent breakdown and from there to the bucket read.
C6_ReconciliationWarning ==
    (amounts.done /\ AllAmountsPresent) =>
        /\ Warned("Reconcile") <=> (2 * AbsInt(DeltaUopt) > UOPT_PER_OPT)
        /\ \A i \in 1..Len(msgs) :
              (msgs[i].kind = "warning" /\ msgs[i].step = "Reconcile") =>
                  RawInt([m |-> msgs[i].delta.m, e |-> msgs[i].delta.e + 6]) = DeltaUopt
        /\ ~Errored("Reconcile")
        /\ Follows("Reconcile", "Breakdown")
        /\ InTrace("Breakdown") =>
              (view.breakdown # <<>> /\ Follows("Breakdown", "FetchBuckets"))

\* delta exactly 0.5 OPT: no warning, and the run reached the bucket read
C6_Witness ==
    /\ amounts.done
    /\ AllAmountsPresent
    /\ 2 * DeltaUopt = UOPT_PER_OPT
    /\ ~Warned("Reconcile")
    /\ InTrace("FetchBuckets")

\* C7 as stated: with a zero or null total the run does not raise and the
\* three percents are 0.0; with a non-zero total each percent is
\* component / total * 100.
C7_ZeroOrNullTotal ==
    (supply # <<>>) =>
        LET t == supply[1].total_supply_uopt
        IN  /\ (t.k = "none" \/ t.m = 0) =>
                  /\ pc # "Raised"
                  /\ \A i \in 1..Len(view.breakdown) :
                        view.breakdown[i].Percent = [num |-> 0, den |-> 1]
            /\ (AllAmountsPresent /\ t.m # 0 /\ view.breakdown # <<>>) =>
                  /\ view.breakdown[1].Percent
                        = Frac(RawInt(supply[1].staked_uopt), RawInt(t), 2)
                  /\ view.breakdown[2].Percent
                        = Frac(RawInt(supply[1].locked_uopt), RawInt(t), 2)
                  /\ view.breakdown[3].Percent
                        = Frac(RawInt(supply[1].liquid_est_uopt), RawInt(t), 2)

\* C8 as stated: no helper raises, whatever the value: to_opt and
\* to_opt_series give a number, None or not-a-number, fmt_opt and fmt_int a
\* string (the placeholder for None and non-numeric text), human a string.
C8_HelpersNeverRaise ==
    /\ fn = "to_opt" => res.k \in {"none", "float", "nan"}
    /\ fn = "to_opt_series" =>
          (Len(res) = 2 /\ \A i \in 1..2 : res[i].k \in {"float", "nan"})
    /\ fn \in {"fmt_opt", "fmt_int"} =>
          (~res.raised /\ (arg.k \in {"none", "str"} => res.out = Placeholder))
    /\ fn = "human" => ~res.raised

ScriptOrder ==
    << "Validate", "Header", "FetchDates", "SelectDate", "FetchSupply", "Reconcile",
       "Breakdown", "FetchBuckets", "FetchCalendar", "FetchDistribution" >>

SectionSteps == {"FetchBuckets", "FetchCalendar", "FetchDistribution"}

\* C9 as stated: SelectDate, then FetchSupply, then the three section
\* fetches, then Reconcile: reconciliation has all three section fetches
\* before it, and FetchSupply comes before every section fetch.
C9_ReconcileAfterSections ==
    /\ InTrace("FetchSupply") =>
          (InTrace("SelectDate") /\ Pos("SelectDate") < Pos("FetchSupply"))
    /\ \A s \in SectionSteps :
          InTrace(s) => (InTrace("FetchSupply") /\ Pos("FetchSupply") < Pos(s))
    /\ InTrace("Reconcile") =>
          \A s \in SectionSteps : InTrace(s) /\ Pos(s) < Pos("Reconcile")

\* C9 amended: a run executes its steps in the script's order, SelectDate,
\* FetchSupply, Reconcile, the percent breakdown, FetchBuckets, FetchCalendar,
\* FetchDistribution: reconciliation comes right after FetchSupply and before
\* every section fetch, and FetchSupply before every section fetch.
C9_ScriptOrder ==
    /\ Len(trace) <= Len(ScriptOrder)
    /\ trace = SubSeq(ScriptOrder, 1, Len(trace))
    /\ pc \notin Terminal \cup {"Validate"} => pc = ScriptOrder[Len(trace) + 1]
    /\ \A s \in SectionSteps :
          InTrace(s) => (InTrace("Reconcile") /\ Pos("Reconcile") < Pos(s))

\* a complete run: all ten steps done
C9_Witness ==
    /\ pc = "Done"
    /\ Len(trace) = Len(ScriptOrder)
    /\ InTrace("Reconcile")
    /\ InTrace("FetchDistribution")

\* C10: for a non-negative amount, human uses the suffix of the largest
\* threshold among 1e12, 1e9, 1e6, 1e3 that the amount reaches, printing the
\* amount divided by it with two decimals; below 1e3 there is no suffix and
\* no decimals. 1e6 -> "1.00M", 1e12 -> "1.00T", 999 -> "999", 0 -> "0".
C10_HumanSuffix ==
    (fn = "human" /\ arg.k \in {"int", "float"} /\ arg.m >= 0) =>
        LET d == IF arg.m = 0 THEN 0 ELSE NumDigits(arg.m) + arg.e
            x == IF d >= 13 THEN 12 ELSE IF d >= 10 THEN 9
                 ELSE IF d >= 7 THEN 6 ELSE IF d >= 4 THEN 3 ELSE 0
            u == IF d >= 13 THEN "T" ELSE IF d >= 10 THEN "B"
                 ELSE IF d >= 7 THEN "M" ELSE IF d >= 4 THEN "K" ELSE ""
            n == Len(res.num)
        IN  /\ ~res.raised
            /\ res.unit = u
            /\ x > 0 =>
                  /\ res.num = FormatFixed2(PyFloat(arg.m, arg.e - x))
                  /\ n >= 4
                  /\ SubSeq(res.num, n - 2, n - 2) = "."
            /\ x = 0 => res.num = FormatGrouped0(PyFloat(arg.m, arg.e))
            /\ arg = PyFloat(1, 6) => (res.num = "1.00" /\ res.unit = "M")
            /\ arg = PyInt(1234567) => (res.num = "1.23" /\ res.unit = "M")
            /\ arg = PyFloat(1, 12) => (res.num = "1.00" /\ res.unit = "T")
            /\ arg = PyInt(1000) => (res.num = "1.00" /\ res.unit = "K")
            /\ arg = PyInt(999) => (res.num = "999" /\ res.unit = "")
            /\ arg = PyInt(0) => (res.num = "0" /\ res.unit = "")

\* human(1e6), the tie between M and K
C10_Witness ==
    /\ fn = "human"
    /\ arg = PyFloat(1, 6)
    /\ res.num = "1.00"
    /\ res.unit = "M"

=============================================================================
